---- MODULE Spec2Model ----
(***************************************************************************)
(* Model of the whisper_transcribe plugin: one plugin run, from reading    *)
(* the task descriptor on standard input to the final EXITING trace.       *)
(*   src/plugins/whisper_transcribe/stash_helper_fallback.py  (helper)     *)
(*   src/plugins/whisper_transcribe/whisper_transcribe.py     (plugin)     *)
(* JSON values are tagged records; a string is a sequence of tokens (a     *)
(* token is a character or a whole word), so that strip() and int() are    *)
(* computed on the text and not assumed.                                   *)
(***************************************************************************)
EXTENDS Integers, Sequences, FiniteSets, TLC

\* ------------------------------------------------------------------ bounds
\* longest list of scenes the host returns for allScenes
MaxScenes == 2
\* most files a scene carries
MaxFiles == 1

\* ------------------------------------------------------------- JSON values
\* t: "absent" (key missing), "null", "bool", "int", "str", "other" (list/dict)
Val(t, b, n, s) == [t |-> t, b |-> b, n |-> n, s |-> s]
Absent == Val("absent", FALSE, 0, <<>>)
Null == Val("null", FALSE, 0, <<>>)
BoolV(b) == Val("bool", b, 0, <<>>)
IntV(n) == Val("int", FALSE, n, <<>>)
StrV(s) == Val("str", FALSE, 0, s)
\* a non-empty list or mapping where a scalar was expected
Other == Val("other", TRUE, 0, <<>>)

\* Python truth value of a JSON value (a missing key reads as None)
Truthy(v) ==
    CASE v.t = "bool" -> v.b
      [] v.t = "int" -> v.n # 0
      [] v.t = "str" -> v.s # <<>>
      [] v.t = "other" -> v.b
      [] OTHER -> FALSE

\* Python `a or b`
PyOr(a, b) == IF Truthy(a) THEN a ELSE b

\* dict.get(key): a missing key reads as None
Get(v) == IF v.t = "absent" THEN Null ELSE v

\* --------------------------------------------------------------- text
Digits == {"0", "1", "2", "3", "4", "5", "6", "7", "8", "9"}
Space == " "

DigitVal(c) ==
    CASE c = "0" -> 0 [] c = "1" -> 1 [] c = "2" -> 2 [] c = "3" -> 3
      [] c = "4" -> 4 [] c = "5" -> 5 [] c = "6" -> 6 [] c = "7" -> 7
      [] c = "8" -> 8 [] c = "9" -> 9 [] OTHER -> 0

RECURSIVE LStrip(_)
LStrip(s) == IF s # <<>> /\ Head(s) = Space THEN LStrip(Tail(s)) ELSE s

RECURSIVE RStrip(_)
RStrip(s) ==
    IF s # <<>> /\ s[Len(s)] = Space THEN RStrip(SubSeq(s, 1, Len(s) - 1)) ELSE s

\* str.strip()
Strip(s) == RStrip(LStrip(s))

RECURSIVE DecValue(_)
DecValue(s) ==
    IF s = <<>> THEN 0 ELSE 10 * DecValue(SubSeq(s, 1, Len(s) - 1)) + DigitVal(s[Len(s)])

\* int(x): [ok, n]. Surrounding blanks are ignored; a text that is not a
\* run of digits, None, a list or a mapping raise.
PyInt(v) ==
    CASE v.t = "int" -> [ok |-> TRUE, n |-> v.n]
      [] v.t = "bool" -> [ok |-> TRUE, n |-> IF v.b THEN 1 ELSE 0]
      [] v.t = "str" ->
            LET d == Strip(v.s)
            IN  IF d # <<>> /\ \A i \in 1..Len(d) : d[i] \in Digits
                THEN [ok |-> TRUE, n |-> DecValue(d)]
                ELSE [ok |-> FALSE, n |-> 0]
      [] OTHER -> [ok |-> FALSE, n |-> 0]

\* lexicographic order of Python strings: a < b
RECURSIVE StrLess(_, _)
TokLess(a, b) == DigitVal(a) < DigitVal(b)
StrLess(a, b) ==
    IF b = <<>> THEN FALSE
    ELSE IF a = <<>> THEN TRUE
    ELSE IF Head(a) = Head(b) THEN StrLess(Tail(a), Tail(b))
    ELSE TokLess(Head(a), Head(b))

\* ------------------------------------------------------- task descriptor
TRANSCRIBE_LAST_SCENE == <<"transcribe_last_scene">>
TRANSCRIBE_SCENE_TASK == <<"transcribe_scene_task">>
OTHER_TASK == <<"rename_file">>

\* settings / pluginSettings: shape "absent", "dict", "list" or "other";
\* items are <<key, value>> pairs (a list item without "value" has Absent)
NoSettings == [shape |-> "absent", items |-> <<>>]
Item(k, v) == [key |-> k, val |-> v]

\* hookContext: kind "absent", "nondict" or "dict" with its input and id
NoHook == [kind |-> "absent", input |-> Absent, id |-> Absent]
\* args: kind "absent", "falsy" (null, [], 0, ""), "nondict" (a non-empty
\* text or list) or "dict"
NoArgsFields == [mode |-> Absent, scene_id |-> Absent, serverUrl |-> Absent,
                 zzdryRun |-> Absent, zzdebugTracing |-> Absent,
                 translateToEnglish |-> Absent]
ArgsOf(kind, f, hook) == [kind |-> kind, f |-> f, hook |-> hook]
NoArgs == ArgsOf("absent", NoArgsFields, NoHook)
\* task: kind "absent", "nondict" or "dict" with its name
TaskOf(kind, name) == [kind |-> kind, name |-> name]
NoTask == TaskOf("absent", Absent)

Descriptor(top, task, args, settings, pluginSettings) ==
    [top |-> top, task |-> task, args |-> args, settings |-> settings,
     pluginSettings |-> pluginSettings]
EmptyObject == Descriptor("object", NoTask, NoArgs, NoSettings, NoSettings)
NonObject == Descriptor("nonobject", NoTask, NoArgs, NoSettings, NoSettings)

\* dict truth value: an object with no key at all is falsy
IsEmptyDict(J) ==
    /\ J.top = "object" /\ J.task.kind = "absent" /\ J.args.kind = "absent"
    /\ J.settings.shape = "absent" /\ J.pluginSettings.shape = "absent"

\* _read_stdin_json: nothing read, a read error or unparseable text give {};
\* any parseable JSON text is returned as parsed, object or not
ReadStdinJson(in) ==
    IF in.kind = "json" THEN in.doc ELSE EmptyObject

\* ------------------------------------------------------------- Setting()
HasKey(items, name) == \E i \in 1..Len(items) : items[i].key = name
FirstIndex(items, name) ==
    CHOOSE i \in 1..Len(items) :
        items[i].key = name /\ \A j \in 1..(i - 1) : items[j].key # name
\* item.get("value", default) of the first item carrying the key
ItemValue(items, name, default) ==
    LET v == items[FirstIndex(items, name)].val
    IN  IF v.t = "absent" THEN default ELSE v

\* the settings mapping handed to the helper's constructor
PluginSettings ==
    << Item("translateToEnglish", BoolV(FALSE)), Item("zzdebugTracing", BoolV(FALSE)),
       Item("zzdryRun", BoolV(FALSE)) >>

ArgNames == DOMAIN NoArgsFields
ArgsHas(J, name) ==
    J.args.kind = "dict" /\ name \in ArgNames /\ J.args.f[name].t # "absent"

\* variant: args looked up before the UI settings
SettingArgsFirst(J, ctor, name, default) ==
    IF ArgsHas(J, name) THEN J.args.f[name]
    ELSE IF J.settings.shape \in {"dict", "list"} /\ HasKey(J.settings.items, name)
    THEN ItemValue(J.settings.items, name, default)
    ELSE IF J.pluginSettings.shape \in {"dict", "list"} /\ HasKey(J.pluginSettings.items, name)
    THEN ItemValue(J.pluginSettings.items, name, default)
    ELSE IF HasKey(ctor, name) THEN ItemValue(ctor, name, default)
    ELSE default

\* StashPluginHelper.Setting(name, default)
Setting(J, ctor, name, default) ==
    IF J.settings.shape \in {"dict", "list"} /\ HasKey(J.settings.items, name)
    THEN ItemValue(J.settings.items, name, default)
    ELSE IF J.pluginSettings.shape \in {"dict", "list"} /\ HasKey(J.pluginSettings.items, name)
    THEN ItemValue(J.pluginSettings.items, name, default)
    ELSE IF ArgsHas(J, name) THEN J.args.f[name]
    ELSE IF HasKey(ctor, name) THEN ItemValue(ctor, name, default)
    ELSE default

\* ------------------------------------------------- _resolve_server_url()
DEFAULT_SERVER_URL == <<"http://127.0.0.1:9191/inference">>

\* isinstance(v, str) and v.strip()
NonBlank(v) == v.t = "str" /\ Strip(v.s) # <<>>

\* step 3 for one source: `src.get("serverUrl")` of a mapping, the value of
\* the first {key: "serverUrl"} item of a list, else `prev`
RawFrom(src, prev) ==
    IF src.shape = "dict"
    THEN (IF HasKey(src.items, "serverUrl")
          THEN Get(src.items[FirstIndex(src.items, "serverUrl")].val) ELSE Null)
    ELSE IF src.shape = "list" /\ HasKey(src.items, "serverUrl")
    THEN Get(src.items[FirstIndex(src.items, "serverUrl")].val)
    ELSE prev

\* step 3: settings first, pluginSettings when that gave nothing truthy.
\* An empty mapping or list is replaced by {} (`or {}`).
Nonempty(src) ==
    IF src.shape \in {"dict", "list"} /\ src.items = <<>> THEN NoSettings ELSE src
RawUrl(J) ==
    LET r1 == RawFrom(Nonempty(J.settings), Null)
    IN  IF Truthy(r1) THEN r1
        ELSE IF Nonempty(J.pluginSettings).shape = "absent"
             THEN Null
             ELSE RawFrom(Nonempty(J.pluginSettings), r1)

\* args.serverUrl as line 302 reads it (args that is no mapping but falsy reads as {})
ArgUrl(J) == IF J.args.kind = "dict" THEN Get(J.args.f.serverUrl) ELSE Null

\* whether _resolve_server_url reaches step 4, the remote fetch
NeedsFetch(J) ==
    /\ ~NonBlank(ArgUrl(J))
    /\ ~NonBlank(Setting(J, PluginSettings, "serverUrl", Null))
    /\ ~NonBlank(RawUrl(J))

\* the URL returned, `fetched` being what the remote fetch returned and `env`
\* the value of WHISPER_SERVER_URL
ResolveServerUrl(J, fetched, env) ==
    IF NonBlank(ArgUrl(J)) THEN Strip(ArgUrl(J).s)
    ELSE IF NonBlank(Setting(J, PluginSettings, "serverUrl", Null))
    THEN Strip(Setting(J, PluginSettings, "serverUrl", Null).s)
    ELSE IF NonBlank(RawUrl(J)) THEN Strip(RawUrl(J).s)
    ELSE IF NonBlank(fetched) THEN Strip(fetched.s)
    ELSE IF NonBlank(env) THEN Strip(env.s)
    ELSE DEFAULT_SERVER_URL

\* ------------------------------------------------------------------ state
VARIABLES
    stdin,                  \* what standard input holds: [kind, doc]
    environ,                \* WHISPER_SERVER_URL
    pc,                     \* position of the run
    JSON_INPUT,             \* stash.JSON_INPUT
    PLUGIN_TASK_NAME,       \* stash.PLUGIN_TASK_NAME
    server_url,             \* module global server_url
    translate_to_english,   \* module global
    dry_run,                \* module global
    inputToUpdateScenePost, \* module global
    hookSceneID,            \* module global (Null is None)
    branch,                 \* the dispatch branch taken: "none" before dispatch
    log,                    \* lines written by stash.Trace/Log/Warn/Error
    gql,                    \* GraphQL requests sent to the host
    file_io,                \* number of file system operations performed
    got_scenes,             \* transcribe_last_scene: outcome of stash.get_all_scenes()
    host,                   \* the kind of answer the host gave to findScene / allScenes,
                            \* and what the settings fetch returned
    ts_calls,               \* the scene ids transcribe_scene was called with
    scene,                  \* transcribe_scene: outcome of stash.find_scene
    video_isfile,           \* transcribe_scene: os.path.isfile(video_path)
    tv,                     \* transcribe_video: its progress and effects
    setting_q,              \* a Setting(name, default) call: its arguments
    setting_r,              \* and what it returned
    resp_json,              \* an _extract_text_from_response call: its argument
    extracted,              \* and what it returned
    server_connection,      \* JSON_INPUT's server_connection
    stash_env,              \* STASH_API_KEY, STASH_GRAPHQL_URL, STASH_URL
    helper_req,             \* the request StashPluginHelper._graphql builds
    fetch_req               \* the request _fetch_server_url_from_settings builds

vars == << stdin, environ, pc, JSON_INPUT, PLUGIN_TASK_NAME, server_url,
           translate_to_english, dry_run, inputToUpdateScenePost, hookSceneID,
           branch, log, gql, file_io, got_scenes, host, ts_calls, scene, video_isfile,
           tv, setting_q, setting_r, resp_json, extracted, server_connection,
           stash_env, helper_req, fetch_req >>

config == << server_url, translate_to_english, dry_run >>
hook == << inputToUpdateScenePost, hookSceneID >>
scene_vars == << got_scenes, host, ts_calls, scene, video_isfile, tv >>
extract_vars == << resp_json, extracted >>
conn_vars == << server_connection, stash_env, helper_req, fetch_req >>
fixed == << stdin, environ, setting_q, setting_r, extract_vars, conn_vars >>

Line(lvl, msg) == [lvl |-> lvl, msg |-> msg]
Request(q, id) == [q |-> q, id |-> id]

\* transcribe_video before any call
TvIdle ==
    [calls |-> 0, probes |-> 0, ffmpegs |-> 0, uploads |-> 0,
     tmp_wav_path |-> FALSE,    \* tmp_wav_path is not None
     wav_on_disk |-> FALSE,     \* the temporary .wav file exists
     response |-> FALSE,        \* response_text is bound
     pending |-> "none",        \* the exception travelling through `finally`
     srt |-> "unchanged",       \* "unchanged", "truncated" or "written"
     result |-> "none"]         \* "none", "returned" or "raised"

NoScene == [kind |-> "unset", nfiles |-> 0]
NoScenes == [raised |-> FALSE, scenes |-> <<>>]
NoAnswer == [findScene |-> "none", allScenes |-> "none", configuration |-> Absent]
NoQuery == [name |-> "", default |-> Absent]

\* no _extract_text_from_response call, no host connection in play
NoFields == [text |-> Absent, transcript |-> Absent, transcription |-> Absent]
NoResponse == [kind |-> "none", output |-> Absent, out |-> NoFields, f |-> NoFields]
NoExtract == resp_json = NoResponse /\ extracted = Absent
\* state: "none" (not built yet), "sent", or "failed" (building it raised)
NoRequest == [state |-> "none", url |-> <<>>, ApiKey |-> Absent, Authorization |-> Absent]
\* server_connection: the descriptor key that carries it, its kind ("absent",
\* "falsy", "nondict" for a non-empty text or list, "dict") and its fields
NoConnFields ==
    [api_key |-> Absent, apiKey |-> Absent, ApiKey |-> Absent,
     graphql_endpoint |-> Absent, graphqlUrl |-> Absent, url |-> Absent,
     scheme |-> Absent, Scheme |-> Absent, endpoint |-> Absent, Endpoint |-> Absent,
     host |-> Absent, Host |-> Absent, port |-> Absent, Port |-> Absent]
ConnOf(key, kind, f) == [key |-> key, kind |-> kind, f |-> f]
NoServerConnection == ConnOf("server_connection", "absent", NoConnFields)
NoEnv == [STASH_API_KEY |-> Absent, STASH_GRAPHQL_URL |-> Absent, STASH_URL |-> Absent]
NoConnection ==
    /\ server_connection = NoServerConnection
    /\ stash_env = NoEnv
    /\ helper_req = NoRequest
    /\ fetch_req = NoRequest

\* ------------------------------------------------------- inputs of a run
Stdin(kind, doc) == [kind |-> kind, doc |-> doc]

TaskVals ==
    {NoTask, TaskOf("nondict", Absent)}
    \cup {TaskOf("dict", StrV(n)) :
            n \in {TRANSCRIBE_LAST_SCENE, TRANSCRIBE_SCENE_TASK, OTHER_TASK}}
ModeVals == {Absent, StrV(TRANSCRIBE_LAST_SCENE), StrV(TRANSCRIBE_SCENE_TASK)}
HookOf(kind, input, id) == [kind |-> kind, input |-> input, id |-> id]
HookIdVals == {Absent, IntV(7), StrV(<<"7">>), StrV(<<"x">>)}
HookVals ==
    {NoHook, HookOf("nondict", Absent, Absent)}
    \cup {HookOf("dict", i, d) : i \in {Absent, Other}, d \in HookIdVals}
SceneIdVals ==
    {Absent, Null, IntV(42), StrV(<<"4", "2">>), StrV(<<" ", "4", "2">>),
     StrV(<<"x">>), StrV(<<"4", "x">>), StrV(<<>>), Other}
WithFields(mode, scene_id, serverUrl, dry, debug) ==
    [NoArgsFields EXCEPT !.mode = mode, !.scene_id = scene_id,
        !.serverUrl = serverUrl, !.zzdryRun = dry, !.zzdebugTracing = debug]

\* every combination of the dispatch keys
DispatchArgs ==
    {NoArgs, ArgsOf("falsy", NoArgsFields, NoHook), ArgsOf("nondict", NoArgsFields, NoHook)}
    \cup {ArgsOf("dict", WithFields(m, i, Absent, Absent, Absent), h) :
            m \in ModeVals, i \in {Absent, IntV(42)}, h \in HookVals}
DispatchDocs ==
    {Descriptor("object", t, a, NoSettings, NoSettings) : t \in TaskVals, a \in DispatchArgs}

\* every shape of args.scene_id under the explicit-scene task
SceneTaskDocs ==
    {Descriptor("object", NoTask,
        ArgsOf("dict", WithFields(StrV(TRANSCRIBE_SCENE_TASK), i, Absent, Absent, Absent), NoHook),
        NoSettings, NoSettings) : i \in SceneIdVals}

\* the configuration sources, with and without a task
UrlA == StrV(<<" ", "http://args", " ">>)
UrlB == StrV(<<"http://ui">>)
UrlC == StrV(<<"http://alt">>)
UrlE == StrV(<<"http://env">>)
Blank == StrV(<<" ">>)
ConfigSettings ==
    {NoSettings,
     [shape |-> "dict", items |-> <<Item("serverUrl", UrlB)>>],
     [shape |-> "dict", items |-> <<Item("serverUrl", Blank)>>],
     [shape |-> "list", items |-> <<Item("zzdryRun", BoolV(TRUE))>>],
     [shape |-> "dict", items |-> <<Item("zzdebugTracing", BoolV(TRUE))>>]}
ConfigAlt == {NoSettings, [shape |-> "dict", items |-> <<Item("serverUrl", UrlC)>>]}
ConfigArgs ==
    {ArgsOf("dict", WithFields(m, i, u, Absent, Absent), NoHook) :
        m \in {Absent, StrV(TRANSCRIBE_SCENE_TASK)}, i \in {IntV(42)},
        u \in {Absent, UrlA, Blank}}
ConfigDocs ==
    {Descriptor("object", NoTask, a, s1, s2) :
        a \in ConfigArgs, s1 \in ConfigSettings, s2 \in ConfigAlt}

Inputs ==
    ({Stdin("empty", EmptyObject), Stdin("garbage", EmptyObject), Stdin("json", NonObject)}
       \cup {Stdin("json", d) : d \in DispatchDocs \cup SceneTaskDocs}) \X {Absent}
    \cup {Stdin("json", d) : d \in ConfigDocs} \X {Absent, UrlE}

\* what the remote settings fetch can return: None, or a stripped non-blank URL
FetchResults == {Null, StrV(<<"http://fetched">>)}

Init ==
    /\ \E in \in Inputs : stdin = in[1] /\ environ = in[2]
    /\ pc = "start"
    /\ JSON_INPUT = EmptyObject
    /\ PLUGIN_TASK_NAME = StrV(<<>>)
    /\ server_url = <<>>
    /\ translate_to_english = BoolV(FALSE)
    /\ dry_run = BoolV(FALSE)
    /\ inputToUpdateScenePost = FALSE
    /\ hookSceneID = Null
    /\ branch = "none"
    /\ log = <<>>
    /\ gql = <<>>
    /\ file_io = 0
    /\ got_scenes = NoScenes
    /\ host = NoAnswer
    /\ ts_calls = <<>>
    /\ scene = NoScene
    /\ video_isfile = FALSE
    /\ tv = TvIdle
    /\ setting_q = NoQuery
    /\ setting_r = Absent
    /\ NoExtract
    /\ NoConnection

\* --------------------------------------------------------------- startup
\* PLUGIN_TASK_NAME = task.get("name") or args.get("mode") or ""
TaskName(J) ==
    LET name == IF J.task.kind = "dict" THEN Get(J.task.name) ELSE Null
        mode == IF J.args.kind = "dict" THEN Get(J.args.f.mode) ELSE Null
    IN  PyOr(PyOr(name, mode), StrV(<<>>))

\* stash = StashPluginHelper(...): a parsed input that is no JSON object
\* makes JSON_INPUT.get raise out of the constructor
Construct ==
    /\ pc = "start"
    /\ JSON_INPUT' = ReadStdinJson(stdin)
    /\ IF JSON_INPUT'.top = "nonobject"
       THEN pc' = "crashed" /\ UNCHANGED PLUGIN_TASK_NAME
       ELSE pc' = "resolve" /\ PLUGIN_TASK_NAME' = TaskName(JSON_INPUT')
    /\ UNCHANGED << fixed, config, hook, branch, log, gql, file_io, scene_vars >>

\* server_url = _resolve_server_url(): args that is a non-empty non-mapping
\* makes .get("serverUrl") raise at module level
ResolveUrl ==
    /\ pc = "resolve"
    /\ IF JSON_INPUT.args.kind = "nondict"
       THEN pc' = "crashed" /\ UNCHANGED << server_url, gql, host >>
       ELSE /\ pc' = "settings"
            /\ IF NeedsFetch(JSON_INPUT)
               THEN \E fetched \in FetchResults :
                       /\ gql' = Append(gql, Request("configuration", <<>>))
                       /\ host' = [host EXCEPT !.configuration = fetched]
                       /\ server_url' = ResolveServerUrl(JSON_INPUT, fetched, environ)
               ELSE /\ server_url' = ResolveServerUrl(JSON_INPUT, Null, environ)
                    /\ UNCHANGED << gql, host >>
    /\ UNCHANGED << fixed, JSON_INPUT, PLUGIN_TASK_NAME, translate_to_english,
                    dry_run, hook, branch, log, file_io, got_scenes, ts_calls,
                    scene, video_isfile, tv >>

\* translate_to_english, dry_run and the optional debug trace
ReadSettings ==
    /\ pc = "settings"
    /\ translate_to_english' = Setting(JSON_INPUT, PluginSettings, "translateToEnglish", BoolV(FALSE))
    /\ dry_run' = Setting(JSON_INPUT, PluginSettings, "zzdryRun", BoolV(FALSE))
    /\ log' = IF Truthy(Setting(JSON_INPUT, PluginSettings, "zzdebugTracing", BoolV(FALSE)))
              THEN Append(log, Line("I", "Resolved serverUrl")) ELSE log
    /\ pc' = "hook"
    /\ UNCHANGED << fixed, JSON_INPUT, PLUGIN_TASK_NAME, server_url, hook,
                    branch, gql, file_io, scene_vars >>

\* the hookContext of the input, or "raise" where reading it raises
HookCtx(J) ==
    IF IsEmptyDict(J) \/ J.args.kind = "absent" THEN NoHook
    ELSE IF J.args.kind # "dict" THEN HookOf("raise", Absent, Absent)
    ELSE IF J.args.hook.kind = "nondict" THEN HookOf("raise", Absent, Absent)
    ELSE J.args.hook

\* detection of the Scene.Update.Post hook; every exception is swallowed
DetectHook ==
    /\ pc = "hook"
    /\ LET h == HookCtx(JSON_INPUT)
       IN  IF h.kind = "dict" /\ Get(h.input) # Null
           THEN /\ inputToUpdateScenePost' = TRUE
                /\ hookSceneID' = IF Get(h.id) # Null /\ PyInt(h.id).ok
                                  THEN IntV(PyInt(h.id).n) ELSE Null
           ELSE UNCHANGED hook
    /\ pc' = "dispatch"
    /\ UNCHANGED << fixed, JSON_INPUT, PLUGIN_TASK_NAME, config, branch, log,
                    gql, file_io, scene_vars >>

\* ---------------------------------------------------------------- dispatch
IsStr(v, s) == v.t = "str" /\ v.s = s

\* the test of line 465: "no", "yes", or "raise" when args is no mapping
ModeTest(J) ==
    IF IsEmptyDict(J) \/ J.args.kind = "absent" THEN "no"
    ELSE IF J.args.kind # "dict" THEN "raise"
    ELSE IF IsStr(Get(J.args.f.mode), TRANSCRIBE_SCENE_TASK) THEN "yes" ELSE "no"

\* the branch of the main entry point that runs: "last", "task", "hook",
\* "noop", or "none" when the dispatch itself raises
DispatchBranch(J, ptn, isHook) ==
    IF IsStr(ptn, TRANSCRIBE_LAST_SCENE) THEN "last"
    ELSE IF IsStr(ptn, TRANSCRIBE_SCENE_TASK) THEN "task"
    ELSE IF ModeTest(J) = "raise" THEN "none"
    ELSE IF ModeTest(J) = "yes" THEN "task"
    ELSE IF isHook THEN "hook"
    ELSE "noop"

\* the main entry point, up to the call of the task it selects
Dispatch ==
    /\ pc = "dispatch"
    /\ LET b == DispatchBranch(JSON_INPUT, PLUGIN_TASK_NAME, inputToUpdateScenePost)
       IN  /\ branch' = b
           /\ CASE b = "last" ->
                    /\ log' = Append(log, Line("T", "PLUGIN_TASK_NAME"))
                    /\ pc' = "last" /\ UNCHANGED ts_calls
                [] b = "task" ->
                    /\ log' = Append(log,
                          IF IsStr(PLUGIN_TASK_NAME, TRANSCRIBE_SCENE_TASK)
                          THEN Line("T", "PLUGIN_TASK_NAME")
                          ELSE Line("T", "Dispatch via args.mode"))
                    /\ pc' = "task" /\ UNCHANGED ts_calls
                [] b = "hook" ->
                    /\ log' = Append(log, Line("T", "Triggered by hook"))
                    /\ IF hookSceneID # Null
                       THEN pc' = "scene" /\ ts_calls' = Append(ts_calls, hookSceneID)
                       ELSE pc' = "last" /\ UNCHANGED ts_calls
                [] b = "noop" ->
                    /\ log' = Append(log, Line("T", "No task specified"))
                    /\ pc' = "exiting" /\ UNCHANGED ts_calls
                [] OTHER ->
                    /\ log' = Append(log, Line("E", "Exception while running plugin"))
                    /\ pc' = "exiting" /\ UNCHANGED ts_calls
    /\ UNCHANGED << fixed, JSON_INPUT, PLUGIN_TASK_NAME, config, hook, gql,
                    file_io, got_scenes, host, scene, video_isfile, tv >>

\* the final trace line
Exit ==
    /\ pc = "exiting"
    /\ log' = Append(log, Line("T", "EXITING"))
    /\ pc' = "exited"
    /\ UNCHANGED << fixed, JSON_INPUT, PLUGIN_TASK_NAME, config, hook, branch,
                    gql, file_io, scene_vars >>

\* ----------------------------------------------------------------- GraphQL
\* what the host answers: a failure kind, or "ok" with the data asked for
GqlFailures ==
    {"transport", "http", "empty", "garbage", "errors", "falsy", "nonobject", "nodata"}
Resp(kind, found, nfiles, islist, scenes) ==
    [kind |-> kind, found |-> found, nfiles |-> nfiles, islist |-> islist, scenes |-> scenes]

\* _graphql: the line it logs for a response
GraphqlLog(kind) ==
    CASE kind = "transport" -> <<Line("E", "URL error calling GraphQL")>>
      [] kind = "http" -> <<Line("E", "HTTP error calling GraphQL")>>
      [] kind = "empty" -> <<Line("W", "Empty GraphQL response")>>
      [] kind = "garbage" -> <<Line("E", "Unexpected error calling GraphQL")>>
      [] kind = "errors" -> <<Line("E", "GraphQL errors")>>
      [] OTHER -> <<>>

\* _graphql: what it returns: "None", or the parsed body: "falsy" (null, [],
\* 0, {}), "nonobject" (a non-empty list, a number, a text), "object"
Graphql(kind) ==
    CASE kind \in {"transport", "http", "empty", "garbage", "errors"} -> "None"
      [] kind = "falsy" -> "falsy"
      [] kind = "nonobject" -> "nonobject"
      [] OTHER -> "object"

\* find_scene: [kind: "raised" | "none" | "scene", nfiles]
FindScene(resp) ==
    LET j == Graphql(resp.kind)
    IN  IF j \in {"None", "falsy"} THEN [kind |-> "none", nfiles |-> 0]
        ELSE IF j = "nonobject" THEN [kind |-> "raised", nfiles |-> 0]
        ELSE IF resp.kind = "ok" /\ resp.found THEN [kind |-> "scene", nfiles |-> resp.nfiles]
        ELSE [kind |-> "none", nfiles |-> 0]

\* get_all_scenes: [raised, scenes]
GetAllScenes(resp) ==
    LET j == Graphql(resp.kind)
    IN  IF j \in {"None", "falsy"} THEN [raised |-> FALSE, scenes |-> <<>>]
        ELSE IF j = "nonobject" THEN [raised |-> TRUE, scenes |-> <<>>]
        ELSE IF resp.kind = "ok" /\ resp.islist THEN [raised |-> FALSE, scenes |-> resp.scenes]
        ELSE [raised |-> FALSE, scenes |-> <<>>]

\* str(n) of a non-negative integer
RECURSIVE DecString(_)
DigitTok(d) == CHOOSE c \in Digits : DigitVal(c) = d
DecString(n) ==
    IF n < 10 THEN <<DigitTok(n)>> ELSE Append(DecString(n \div 10), DigitTok(n % 10))

\* str(scene_id) as find_scene sends it
PyStr(v) == IF v.t = "int" THEN DecString(v.n) ELSE v.s

\* updated_at values, compared as text: "10" < "2" < "9"
Dates == {<<"2">>, <<"1", "0">>, <<"9">>}
SceneOf(i, d) == [id |-> StrV(DecString(i)), updated_at |-> d]
SceneLists ==
    UNION {{[i \in 1..n |-> SceneOf(i, f[i])] : f \in [1..n -> Dates]} : n \in 0..MaxScenes}

FindSceneResponses ==
    {Resp(k, FALSE, 0, FALSE, <<>>) : k \in GqlFailures \cup {"ok"}}
    \cup {Resp("ok", TRUE, n, FALSE, <<>>) : n \in 0..MaxFiles}
AllScenesResponses ==
    {Resp(k, FALSE, 0, FALSE, <<>>) : k \in GqlFailures \cup {"ok"}}
    \cup {Resp("ok", FALSE, 0, TRUE, l) : l \in SceneLists}

\* ------------------------------------------------------------------- tasks
\* max(all_scenes, key=updated_at): the index kept after scanning from `i`,
\* replaced only by a strictly greater key
\* variant: a later scene with an equal key replaces the one kept
RECURSIVE MaxFromLastOnTies(_, _, _)
MaxFromLastOnTies(l, i, best) ==
    IF i > Len(l) THEN best
    ELSE IF ~StrLess(l[i].updated_at, l[best].updated_at) THEN MaxFromLastOnTies(l, i + 1, i)
    ELSE MaxFromLastOnTies(l, i + 1, best)

RECURSIVE MaxFrom(_, _, _)
MaxFrom(l, i, best) ==
    IF i > Len(l) THEN best
    ELSE IF StrLess(l[best].updated_at, l[i].updated_at) THEN MaxFrom(l, i + 1, i)
    ELSE MaxFrom(l, i + 1, best)
Latest(l) == l[MaxFrom(l, 2, 1)]

\* transcribe_last_scene, up to its call of transcribe_scene
TranscribeLastScene ==
    /\ pc = "last"
    /\ \E resp \in AllScenesResponses :
          LET r == GetAllScenes(resp)
              sent == log \o GraphqlLog(resp.kind)
          IN  /\ gql' = Append(gql, Request("allScenes", <<>>))
              /\ got_scenes' = r
              /\ host' = [host EXCEPT !.allScenes = resp.kind]
              /\ IF r.raised
                 THEN /\ log' = Append(sent, Line("E", "Exception in transcribe_last_scene"))
                      /\ pc' = "exiting" /\ UNCHANGED ts_calls
                 ELSE IF r.scenes = <<>>
                 THEN /\ log' = Append(sent, Line("E", "No scenes found"))
                      /\ pc' = "exiting" /\ UNCHANGED ts_calls
                 ELSE IF Get(Latest(r.scenes).id) = Null
                 THEN /\ log' = Append(sent, Line("E", "Latest scene has no ID"))
                      /\ pc' = "exiting" /\ UNCHANGED ts_calls
                 ELSE /\ log' = sent
                      /\ ts_calls' = Append(ts_calls, Latest(r.scenes).id)
                      /\ pc' = "scene"
    /\ UNCHANGED << fixed, JSON_INPUT, PLUGIN_TASK_NAME, config, hook, branch,
                    file_io, scene, video_isfile, tv >>

\* args.scene_id as transcribe_scene_task reads and coerces it:
\* [kind: "raise" | "missing" | "ok", id]
\* variant: the value is handed on without int()
SceneIdArgUncoerced(J) ==
    IF J.args.kind = "absent" THEN [kind |-> "missing", id |-> Null]
    ELSE IF J.args.kind # "dict" THEN [kind |-> "raise", id |-> Null]
    ELSE IF Get(J.args.f.scene_id) = Null THEN [kind |-> "missing", id |-> Null]
    ELSE [kind |-> "ok", id |-> J.args.f.scene_id]

SceneIdArg(J) ==
    IF J.args.kind = "absent" THEN [kind |-> "missing", id |-> Null]
    ELSE IF J.args.kind # "dict" THEN [kind |-> "raise", id |-> Null]
    ELSE IF Get(J.args.f.scene_id) = Null THEN [kind |-> "missing", id |-> Null]
    ELSE IF PyInt(J.args.f.scene_id).ok
    THEN [kind |-> "ok", id |-> IntV(PyInt(J.args.f.scene_id).n)]
    ELSE [kind |-> "raise", id |-> Null]

\* transcribe_scene_task, up to its call of transcribe_scene
TranscribeSceneTask ==
    /\ pc = "task"
    /\ LET a == SceneIdArg(JSON_INPUT)
       IN  CASE a.kind = "ok" ->
                    /\ ts_calls' = Append(ts_calls, a.id)
                    /\ pc' = "scene" /\ UNCHANGED log
             [] a.kind = "missing" ->
                    /\ log' = Append(log, Line("E", "No scene_id supplied"))
                    /\ pc' = "exiting" /\ UNCHANGED ts_calls
             [] OTHER ->
                    /\ log' = Append(log, Line("E", "Exception in transcribe_scene_task"))
                    /\ pc' = "exiting" /\ UNCHANGED ts_calls
    /\ UNCHANGED << fixed, JSON_INPUT, PLUGIN_TASK_NAME, config, hook, branch,
                    gql, file_io, got_scenes, host, scene, video_isfile, tv >>

\* transcribe_scene: what it does with the scene found:
\* "error" (exception), "notfound", "nofiles", "missing", "dryrun", "transcribe"
\* variant: the os.path.isfile test is left out
SceneStepNoFileTest(r, isfile, dry) ==
    IF r.kind = "raised" THEN "error"
    ELSE IF r.kind = "none" THEN "notfound"
    ELSE IF r.nfiles = 0 THEN "nofiles"
    ELSE IF Truthy(dry) THEN "dryrun"
    ELSE "transcribe"

SceneStep(r, isfile, dry) ==
    IF r.kind = "raised" THEN "error"
    ELSE IF r.kind = "none" THEN "notfound"
    ELSE IF r.nfiles = 0 THEN "nofiles"
    ELSE IF ~isfile THEN "missing"
    ELSE IF Truthy(dry) THEN "dryrun"
    ELSE "transcribe"

SceneLog(step) ==
    CASE step = "error" -> <<Line("E", "Exception in transcribe_scene")>>
      [] step = "notfound" -> <<Line("E", "Scene not found")>>
      [] step = "nofiles" -> <<Line("W", "Scene has no associated files")>>
      [] step = "missing" -> <<Line("W", "Video file does not exist")>>
      [] step = "dryrun" -> <<Line("I", "Dry-run: would transcribe"),
                              Line("I", "Transcription completed")>>
      [] OTHER -> <<>>

\* transcribe_scene, up to its call of transcribe_video
TranscribeScene ==
    /\ pc = "scene"
    /\ \E resp \in FindSceneResponses, isfile \in BOOLEAN :
          LET r == FindScene(resp)
              step == SceneStep(r, isfile, dry_run)
          IN  /\ gql' = Append(gql, Request("findScene", PyStr(ts_calls[Len(ts_calls)])))
              /\ scene' = r
              /\ host' = [host EXCEPT !.findScene = resp.kind]
              /\ video_isfile' = (r.kind = "scene" /\ r.nfiles > 0 /\ isfile)
              /\ file_io' = IF r.kind = "scene" /\ r.nfiles > 0 THEN file_io + 1 ELSE file_io
              /\ log' = log \o GraphqlLog(resp.kind) \o SceneLog(step)
              /\ IF step = "transcribe"
                 THEN pc' = "tv_check" /\ tv' = [TvIdle EXCEPT !.calls = tv.calls + 1]
                 ELSE pc' = "exiting" /\ UNCHANGED tv
    /\ UNCHANGED << fixed, JSON_INPUT, PLUGIN_TASK_NAME, config, hook, branch,
                    got_scenes, ts_calls >>

\* -------------------------------------------------------- transcribe_video
tv_frame == << fixed, JSON_INPUT, PLUGIN_TASK_NAME, config, hook, branch,
               gql, got_scenes, host, ts_calls, scene, video_isfile >>

\* raise out of transcribe_video / return from it
TvRaise(t) == [t EXCEPT !.result = "raised"]
TvReturn(t) == [t EXCEPT !.result = "returned"]

\* the existence check and the reachability probe (before the try block)
TvCheck ==
    /\ pc = "tv_check"
    /\ file_io' = file_io + 1
    /\ \E exists \in BOOLEAN, reachable \in BOOLEAN :
          IF ~exists
          THEN ~reachable /\ tv' = TvRaise(tv) /\ pc' = "tv_done"
          ELSE IF ~reachable
          THEN tv' = TvRaise([tv EXCEPT !.probes = @ + 1]) /\ pc' = "tv_done"
          ELSE tv' = [tv EXCEPT !.probes = @ + 1] /\ pc' = "tv_tempfile"
    /\ UNCHANGED << tv_frame, log >>

\* tempfile.NamedTemporaryFile(suffix=".wav", delete=False)
TvTempFile ==
    /\ pc = "tv_tempfile"
    /\ file_io' = file_io + 1
    /\ \E created \in BOOLEAN :
          IF created
          THEN /\ tv' = [tv EXCEPT !.tmp_wav_path = TRUE, !.wav_on_disk = TRUE]
               /\ pc' = "tv_ffmpeg"
          ELSE /\ tv' = [tv EXCEPT !.pending = "OSError"]
               /\ pc' = "tv_finally"
    /\ UNCHANGED << tv_frame, log >>

\* subprocess.run(ffmpeg ...): started and exits 0, exits non-zero, or is not installed
TvFfmpeg ==
    /\ pc = "tv_ffmpeg"
    /\ \E out \in {"ok", "failed", "missing"} :
          /\ tv' = [tv EXCEPT !.ffmpegs = @ + 1,
                              !.pending = IF out = "ok" THEN "none" ELSE "RuntimeError"]
          /\ pc' = IF out = "ok" THEN "tv_upload" ELSE "tv_finally"
    /\ UNCHANGED << tv_frame, log, file_io >>

\* _post_whisper_audio: a 2xx response, or an error
TvUpload ==
    /\ pc = "tv_upload"
    /\ file_io' = file_io + 1
    /\ \E ok \in BOOLEAN :
          tv' = [tv EXCEPT !.uploads = @ + 1, !.response = ok,
                          !.pending = IF ok THEN "none" ELSE "RuntimeError"]
    /\ pc' = "tv_finally"
    /\ UNCHANGED << tv_frame, log >>

\* the wav file after the finally block, `removed` telling whether
\* os.remove succeeded; its failure is swallowed
Cleanup(t, removed) ==
    IF t.tmp_wav_path /\ t.wav_on_disk
    THEN [t EXCEPT !.wav_on_disk = ~removed]
    ELSE t

\* variant: the pending exception is dropped after the cleanup
TvFinallyDropsException ==
    /\ pc = "tv_finally"
    /\ file_io' = IF tv.tmp_wav_path THEN file_io + 1 ELSE file_io
    /\ \E removed \in BOOLEAN :
          /\ (tv.tmp_wav_path /\ tv.wav_on_disk) \/ removed
          /\ tv' = Cleanup(tv, removed) /\ pc' = "tv_write"
    /\ UNCHANGED << tv_frame, log >>

\* the finally block, then the pending exception goes on to the caller
TvFinally ==
    /\ pc = "tv_finally"
    /\ file_io' = IF tv.tmp_wav_path THEN file_io + 1 ELSE file_io
    /\ \E removed \in BOOLEAN :
          /\ (tv.tmp_wav_path /\ tv.wav_on_disk) \/ removed
          /\ IF tv.pending # "none"
             THEN tv' = TvRaise(Cleanup(tv, removed)) /\ pc' = "tv_done"
             ELSE tv' = Cleanup(tv, removed) /\ pc' = "tv_write"
    /\ UNCHANGED << tv_frame, log >>

\* open(srt_path, "w") and write(response_text)
TvWriteSrt ==
    /\ pc = "tv_write"
    /\ file_io' = file_io + 1
    /\ \E out \in {"ok", "open_failed", "write_failed"} :
          tv' = CASE out = "ok" -> TvReturn([tv EXCEPT !.srt = "written"])
                  [] out = "open_failed" -> TvRaise(tv)
                  [] OTHER -> TvRaise([tv EXCEPT !.srt = "truncated"])
    /\ pc' = "tv_done"
    /\ UNCHANGED << tv_frame, log >>

\* back in transcribe_scene: the completion message, or the except clause
TranscribeSceneResume ==
    /\ pc = "tv_done"
    /\ log' = Append(log, IF tv.result = "returned"
                          THEN Line("I", "Transcription completed")
                          ELSE Line("E", "Exception in transcribe_scene"))
    /\ pc' = "exiting"
    /\ UNCHANGED << tv_frame, file_io, tv >>

\* ------------------------------------------------------------ specification
Next ==
    \/ Construct
    \/ ResolveUrl
    \/ ReadSettings
    \/ DetectHook
    \/ Dispatch
    \/ TranscribeLastScene
    \/ TranscribeSceneTask
    \/ TranscribeScene
    \/ TvCheck
    \/ TvTempFile
    \/ TvFfmpeg
    \/ TvUpload
    \/ TvFinally
    \/ TvWriteSrt
    \/ TranscribeSceneResume
    \/ Exit

Spec == Init /\ [][Next]_vars

\* ---------------------------------------------- Setting() on its own inputs
\* descriptors that carry one name `k` in any subset of the three sources
FromUi == StrV(<<"ui">>)
FromAlt == StrV(<<"alt">>)
FromArgs == StrV(<<"args">>)
FromDefault == StrV(<<"default">>)
SettingNames == {"zzdryRun", "serverUrl"}
SettingsFor(k, v) ==
    {NoSettings,
     [shape |-> "other", items |-> <<>>],
     [shape |-> "dict", items |-> <<Item(k, v)>>],
     [shape |-> "dict", items |-> <<Item(k, Null)>>],
     [shape |-> "list", items |-> <<Item(k, v)>>],
     [shape |-> "list", items |-> <<Item("other", Null), Item(k, Absent), Item(k, v)>>]}
ArgsFor(k) ==
    {NoArgs, ArgsOf("falsy", NoArgsFields, NoHook),
     ArgsOf("dict", [NoArgsFields EXCEPT ![k] = FromArgs], NoHook)}
SettingDocs ==
    {Descriptor("object", NoTask, a, s1, s2) :
        <<a, s1, s2>> \in UNION {ArgsFor(k) \X SettingsFor(k, FromUi) \X SettingsFor(k, FromAlt) :
                                  k \in SettingNames}}

InitSetting ==
    /\ \E d \in SettingDocs :
          /\ stdin = Stdin("json", d)
          /\ JSON_INPUT = ReadStdinJson(stdin)
    /\ \E name \in SettingNames : setting_q = [name |-> name, default |-> FromDefault]
    /\ environ = Absent
    /\ pc = "setting"
    /\ PLUGIN_TASK_NAME = TaskName(JSON_INPUT)
    /\ server_url = <<>>
    /\ translate_to_english = BoolV(FALSE)
    /\ dry_run = BoolV(FALSE)
    /\ inputToUpdateScenePost = FALSE
    /\ hookSceneID = Null
    /\ branch = "none"
    /\ log = <<>>
    /\ gql = <<>>
    /\ file_io = 0
    /\ got_scenes = NoScenes
    /\ host = NoAnswer
    /\ ts_calls = <<>>
    /\ scene = NoScene
    /\ video_isfile = FALSE
    /\ tv = TvIdle
    /\ setting_r = Absent
    /\ NoExtract
    /\ NoConnection

\* stash.Setting(name, default)
CallSetting ==
    /\ pc = "setting"
    /\ setting_r' = Setting(JSON_INPUT, PluginSettings, setting_q.name, setting_q.default)
    /\ pc' = "setting_done"
    /\ UNCHANGED << stdin, environ, setting_q, JSON_INPUT, PLUGIN_TASK_NAME, config, hook,
                    branch, log, gql, file_io, scene_vars, extract_vars, conn_vars >>

NextSetting == CallSetting

SpecSetting == InitSetting /\ [][NextSetting]_vars

\* ------------------------------------- _extract_text_from_response()
\* the plugin's own variables while another component is exercised
NoRun(p) ==
    /\ stdin = Stdin("empty", EmptyObject)
    /\ environ = Absent
    /\ pc = p
    /\ JSON_INPUT = EmptyObject
    /\ PLUGIN_TASK_NAME = StrV(<<>>)
    /\ server_url = <<>>
    /\ translate_to_english = BoolV(FALSE)
    /\ dry_run = BoolV(FALSE)
    /\ inputToUpdateScenePost = FALSE
    /\ hookSceneID = Null
    /\ branch = "none"
    /\ log = <<>>
    /\ gql = <<>>
    /\ file_io = 0
    /\ got_scenes = NoScenes
    /\ host = NoAnswer
    /\ ts_calls = <<>>
    /\ scene = NoScene
    /\ video_isfile = FALSE
    /\ tv = TvIdle
    /\ setting_q = NoQuery
    /\ setting_r = Absent
run_vars == << stdin, environ, JSON_INPUT, PLUGIN_TASK_NAME, config, hook, branch,
              log, gql, file_io, scene_vars, setting_q, setting_r >>

\* the field names tried, in the order of the tuple ("text", "transcript", "transcription")
TextKeys == << "text", "transcript", "transcription" >>

\* the first of the three keys that holds a string, or None
RECURSIVE FirstText(_, _)
FirstText(m, i) ==
    IF i > Len(TextKeys) THEN Null
    ELSE IF m[TextKeys[i]].t = "str" THEN m[TextKeys[i]]
    ELSE FirstText(m, i + 1)

\* variant: the top level is looked at before 'output'
ExtractTopLevelFirst(r) ==
    IF r.kind # "dict" THEN Null
    ELSE IF FirstText(r.f, 1) # Null THEN FirstText(r.f, 1)
    ELSE IF r.output.t = "str" THEN r.output
    ELSE IF r.output.t = "dict" THEN FirstText(r.out, 1)
    ELSE Null

\* _extract_text_from_response(resp_json)
ExtractTextFromResponse(r) ==
    IF r.kind # "dict" THEN Null
    ELSE IF r.output.t = "str" THEN r.output
    ELSE IF r.output.t = "dict" /\ FirstText(r.out, 1) # Null THEN FirstText(r.out, 1)
    ELSE FirstText(r.f, 1)

\* responses: None, a list, or an object whose 'output' is absent, a string,
\* a list or an object, every field being absent, a string or a number
FieldVals(tag) == {Absent, StrV(<<tag>>), IntV(1)}
FieldSets(tag) ==
    {[text |-> a, transcript |-> b, transcription |-> c] :
        a \in FieldVals(tag \o ".text"), b \in FieldVals(tag \o ".transcript"),
        c \in FieldVals(tag \o ".transcription")}
OutputDict == Val("dict", TRUE, 0, <<>>)
Responses ==
    {NoResponse, [NoResponse EXCEPT !.kind = "list"]}
    \cup {[kind |-> "dict", output |-> o, out |-> NoFields, f |-> f] :
            o \in {Absent, StrV(<<"output">>), Other, Null}, f \in FieldSets("top")}
    \cup {[kind |-> "dict", output |-> OutputDict, out |-> g, f |-> f] :
            g \in FieldSets("output"), f \in FieldSets("top")}

InitExtract ==
    /\ NoRun("extract")
    /\ NoConnection
    /\ resp_json \in Responses
    /\ extracted = Absent

CallExtract ==
    /\ pc = "extract"
    /\ extracted' = ExtractTextFromResponse(resp_json)
    /\ pc' = "extract_done"
    /\ UNCHANGED << run_vars, resp_json, conn_vars >>

NextExtract == CallExtract

SpecExtract == InitExtract /\ [][NextExtract]_vars

\* ------------------------------------------- host connection (GraphQL)
\* a or b or c over three fields of a mapping
Or3(f, a, b, c) == PyOr(PyOr(Get(f[a]), Get(f[b])), Get(f[c]))

\* `JSON_INPUT.get(k1) or JSON_INPUT.get(k2) or {}`: the connection read
\* under the keys k1, k2; a missing or falsy one reads as the empty mapping
ConnUnder(sc, k1, k2) ==
    IF sc.key \in {k1, k2} /\ sc.kind \in {"dict", "nondict"} THEN sc
    ELSE ConnOf(sc.key, "dict", NoConnFields)

\* StashPluginHelper._api_key
ApiKey(sc, env) ==
    LET c == ConnUnder(sc, "server_connection", "serverConnection")
    IN  IF c.kind = "dict" THEN Or3(c.f, "api_key", "apiKey", "ApiKey")
        ELSE Get(env.STASH_API_KEY)

\* str.rstrip("/")
RECURSIVE RStripSlash(_)
RStripSlash(s) ==
    IF s # <<>> /\ s[Len(s)] = "/" THEN RStripSlash(SubSeq(s, 1, Len(s) - 1)) ELSE s

DEFAULT_GRAPHQL_URL == <<"http", "://", "127.0.0.1", ":", "9", "9", "9", "9", "/graphql">>

\* the environment part of _graphql_url
EnvGraphqlUrl(env) ==
    IF Truthy(Get(env.STASH_GRAPHQL_URL)) THEN env.STASH_GRAPHQL_URL.s
    ELSE IF Truthy(Get(env.STASH_URL)) THEN RStripSlash(env.STASH_URL.s) \o <<"/graphql">>
    ELSE DEFAULT_GRAPHQL_URL

\* StashPluginHelper._graphql_url
GraphqlUrl(sc, env) ==
    LET c == ConnUnder(sc, "server_connection", "serverConnection")
        explicit == Or3(c.f, "graphql_endpoint", "graphqlUrl", "url")
        scheme == PyOr(PyOr(Get(c.f.scheme), Get(c.f.Scheme)), StrV(<<"http">>))
        endpoint == Or3(c.f, "endpoint", "Endpoint", "host")
    IN  IF c.kind = "dict" /\ Truthy(explicit) THEN explicit.s
        ELSE IF c.kind = "dict" /\ Truthy(endpoint)
        THEN scheme.s \o <<"://">> \o endpoint.s \o <<"/graphql">>
        ELSE EnvGraphqlUrl(env)

\* _build_graphql_url(conn), conn being a mapping
BuildGraphqlUrl(c) ==
    LET scheme == PyOr(PyOr(Get(c.f.Scheme), Get(c.f.scheme)), StrV(<<"http">>))
        hostname == PyOr(PyOr(Get(c.f.Host), Get(c.f.host)), StrV(<<"127.0.0.1">>))
        port == PyOr(Get(c.f.Port), Get(c.f.port))
    IN  IF Truthy(port)
        THEN scheme.s \o <<"://">> \o hostname.s \o <<":">> \o PyStr(port) \o <<"/graphql">>
        ELSE scheme.s \o <<"://">> \o hostname.s \o <<"/graphql">>

\* connections: the credential fields varied, then the address fields varied
KeyConnFields ==
    {[NoConnFields EXCEPT !.api_key = a, !.apiKey = b, !.ApiKey = c, !.host = h] :
        a \in {Absent, StrV(<<"key1">>), StrV(<<>>)}, b \in {Absent, StrV(<<"key2">>)},
        c \in {Absent, StrV(<<"key3">>)}, h \in {Absent, StrV(<<"localhost">>)}}
UrlConnFields ==
    {[NoConnFields EXCEPT !.graphql_endpoint = g, !.url = u, !.scheme = s1, !.Scheme = s2,
                          !.endpoint = e, !.host = h1, !.Host = h2, !.port = p1, !.Port = p2] :
        g \in {Absent, StrV(<<"http://explicit/graphql">>)}, u \in {Absent, StrV(<<"http://url">>)},
        s1 \in {Absent, StrV(<<"https">>)}, s2 \in {Absent, StrV(<<"http">>)},
        e \in {Absent, StrV(<<"endpoint">>)}, h1 \in {Absent, StrV(<<"localhost">>)},
        h2 \in {Absent, StrV(<<"stash">>)}, p1 \in {Absent, IntV(9999)},
        p2 \in {Absent, StrV(<<"8", "0">>)}}
ConnKeys == {"server_connection", "serverConnection", "ServerConnection"}
Connections ==
    {NoServerConnection}
    \cup {ConnOf(k, kind, NoConnFields) : k \in ConnKeys, kind \in {"falsy", "nondict", "dict"}}
    \cup {ConnOf(k, "dict", f) : k \in ConnKeys, f \in KeyConnFields}
    \cup {ConnOf("server_connection", "dict", f) : f \in UrlConnFields}
Environments ==
    {[STASH_API_KEY |-> k, STASH_GRAPHQL_URL |-> g, STASH_URL |-> u] :
        k \in {Absent, StrV(<<"envkey">>)}, g \in {Absent, StrV(<<"http://envgql">>)},
        u \in {Absent, StrV(<<"http://envbase", "/", "/">>)}}

InitConnection ==
    /\ NoRun("connection")
    /\ NoExtract
    /\ server_connection \in Connections
    /\ stash_env \in Environments
    /\ helper_req = NoRequest
    /\ fetch_req = NoRequest

\* StashPluginHelper._graphql, up to the request it sends: URL and headers
HelperRequest ==
    /\ pc = "connection"
    /\ helper_req.state = "none"
    /\ LET key == ApiKey(server_connection, stash_env)
       IN  helper_req' =
             [state |-> "sent",
              url |-> GraphqlUrl(server_connection, stash_env),
              ApiKey |-> IF Truthy(key) THEN key ELSE Absent,
              Authorization |-> IF Truthy(key) THEN StrV(<<"apikey ">> \o key.s) ELSE Absent]
    /\ UNCHANGED << run_vars, pc, extract_vars, server_connection, stash_env, fetch_req >>

\* _fetch_server_url_from_settings, up to the request it sends; a connection
\* that is no mapping makes .get raise, which is swallowed with no request
FetchRequest ==
    /\ pc = "connection"
    /\ fetch_req.state = "none"
    /\ LET c == ConnUnder(server_connection, "server_connection", "ServerConnection")
       IN  fetch_req' =
             IF c.kind # "dict" THEN [NoRequest EXCEPT !.state = "failed"]
             ELSE [NoRequest EXCEPT !.state = "sent", !.url = BuildGraphqlUrl(c)]
    /\ UNCHANGED << run_vars, pc, extract_vars, server_connection, stash_env, helper_req >>

NextConnection == HelperRequest \/ FetchRequest

SpecConnection == InitConnection /\ [][NextConnection]_vars

\* ------------------------------------------------------------------ claims
\* the task descriptor as the claims speak of it
Doc == ReadStdinJson(stdin)
DocTaskName == IF Doc.task.kind = "dict" THEN Doc.task.name ELSE Absent
DocMode == IF Doc.args.kind = "dict" THEN Doc.args.f.mode ELSE Absent
DocHook == IF Doc.args.kind = "dict" /\ Doc.args.hook.kind = "dict" THEN Doc.args.hook ELSE NoHook
DocSceneId == IF Doc.args.kind = "dict" THEN Doc.args.f.scene_id ELSE Absent
DocServerUrl == IF Doc.args.kind = "dict" THEN Doc.args.f.serverUrl ELSE Absent
Recognized(v) == IsStr(v, TRANSCRIBE_LAST_SCENE) \/ IsStr(v, TRANSCRIBE_SCENE_TASK)
Logged(lvl, msg) == \E i \in DOMAIN log : log[i] = Line(lvl, msg)
Sent(q) == \E i \in DOMAIN gql : gql[i].q = q

\* C1: once transcribe_video has returned or raised, the temporary .wav file
\* it created is no longer on disk, whatever step ended the call and whatever
\* the removal attempt did.
C1_TempWavRemovedOnEveryExit ==
    (tv.result \in {"returned", "raised"} /\ tv.tmp_wav_path) => ~tv.wav_on_disk

\* C2: a run whose descriptor has no recognized dispatch key sends no GraphQL
\* request, does no file I/O and logs nothing but "No task specified".
NoDispatchKey ==
    /\ ~Recognized(DocTaskName) /\ ~Recognized(DocMode) /\ Get(DocHook.input) = Null
C2_NoKeyRunHasNoEffect ==
    NoDispatchKey =>
        /\ gql = <<>>
        /\ file_io = 0
        /\ \A i \in DOMAIN log : log[i].msg = "No task specified"

\* C3: whatever standard input holds and whatever the external steps do, no
\* exception leaves the process: the run never ends anywhere but at EXITING.
C3_NoExceptionLeavesTheRun == pc # "crashed"

\* what a source holds for the name asked: the value of its first item with
\* that key, `default` standing in for an item without a value
Holds(src, name) == src.shape \in {"dict", "list"} /\ \E i \in DOMAIN src.items : src.items[i].key = name
Held(src, name, default) ==
    LET i == CHOOSE k \in DOMAIN src.items :
                 src.items[k].key = name /\ \A j \in 1..(k - 1) : src.items[j].key # name
    IN  IF src.items[i].val = Absent THEN default ELSE src.items[i].val
InUi(name) == Holds(JSON_INPUT.settings, name)
InAlt(name) == Holds(JSON_INPUT.pluginSettings, name)
InArgs(name) == JSON_INPUT.args.kind = "dict" /\ JSON_INPUT.args.f[name] # Absent
InCtor(name) == \E i \in DOMAIN PluginSettings : PluginSettings[i].key = name

\* C4 (as stated): Setting(name, default) gives args precedence over the UI
\* settings, and the UI settings precedence over the constructor defaults.
C4_ArgsWinOverUiSettings ==
    pc = "setting_done" =>
        LET n == setting_q.name
        IN  /\ (InArgs(n) /\ (InUi(n) \/ InAlt(n))) => setting_r = JSON_INPUT.args.f[n]
            /\ (InUi(n) /\ InCtor(n) /\ ~InArgs(n)) =>
                    setting_r = Held(JSON_INPUT.settings, n, setting_q.default)

\* C4 (amended): the precedence is UI settings ('settings', then
\* 'pluginSettings') > args > constructor defaults: a name carried by both
\* args and the UI settings resolves to the UI value; a name in 'settings' and
\* the constructor mapping but not in args resolves to the UI value; args
\* still win over the constructor defaults.
C4_UiSettingsWinOverArgs ==
    pc = "setting_done" =>
        LET n == setting_q.name
            d == setting_q.default
        IN  /\ (InUi(n) /\ InArgs(n)) => setting_r = Held(JSON_INPUT.settings, n, d)
            /\ (~InUi(n) /\ InAlt(n) /\ InArgs(n)) =>
                    setting_r = Held(JSON_INPUT.pluginSettings, n, d)
            /\ (InUi(n) /\ InCtor(n) /\ ~InArgs(n)) =>
                    setting_r = Held(JSON_INPUT.settings, n, d)
            /\ (~InUi(n) /\ ~InAlt(n) /\ InArgs(n)) => setting_r = JSON_INPUT.args.f[n]

\* C4 witness: a call whose name is in args, in 'settings' and in the
\* constructor defaults has returned the UI value
C4_Witness ==
    /\ pc = "setting_done" /\ setting_q.name = "zzdryRun"
    /\ InArgs("zzdryRun") /\ InCtor("zzdryRun")
    /\ JSON_INPUT.settings.shape = "dict" /\ InUi("zzdryRun")
    /\ setting_r = FromUi

\* C5 (as stated): exactly one dispatch branch runs, the first that matches
\* in the order: task name transcribe_last_scene, task name or args.mode
\* transcribe_scene_task, hookContext.input present, else the no-op branch.
ClaimedBranch ==
    IF IsStr(PLUGIN_TASK_NAME, TRANSCRIBE_LAST_SCENE) THEN "last"
    ELSE IF IsStr(PLUGIN_TASK_NAME, TRANSCRIBE_SCENE_TASK) \/ IsStr(DocMode, TRANSCRIBE_SCENE_TASK)
    THEN "task"
    ELSE IF Get(DocHook.input) # Null THEN "hook"
    ELSE "noop"
C5_OneBranchByPriority == pc = "exited" => branch = ClaimedBranch

\* C6: transcribe_last_scene calls transcribe_scene exactly once, with the id
\* of the first scene whose updated_at text is not less than any other's;
\* with an empty list it logs an error and makes no call.
C6_LatestSceneTranscribedOnce ==
    (host.allScenes # "none" /\ ~got_scenes.raised) =>
        LET l == got_scenes.scenes
        IN  IF l = <<>>
            THEN ts_calls = <<>> /\ Logged("E", "No scenes found")
            ELSE /\ Len(ts_calls) = 1
                 /\ \E i \in DOMAIN l :
                       /\ ts_calls[1] = l[i].id
                       /\ \A j \in DOMAIN l : ~StrLess(l[i].updated_at, l[j].updated_at)
                       /\ \A j \in 1..(i - 1) : l[j].updated_at # l[i].updated_at
                 /\ (Len(l) = 2 /\ l[1].updated_at = <<"9">> /\ l[2].updated_at = <<"1", "0">>)
                        => ts_calls[1] = l[1].id
C6_Witness ==
    /\ Len(got_scenes.scenes) = 2
    /\ got_scenes.scenes[1].updated_at = got_scenes.scenes[2].updated_at
    /\ ts_calls = <<got_scenes.scenes[1].id>>
    /\ Sent("findScene")

\* C7: transcribe_scene_task calls transcribe_scene with int(args.scene_id),
\* "42" giving the integer 42; an absent or uncoercible scene_id gives an
\* error line, no call and no findScene request.
C7_SceneIdCoercedToInteger ==
    (branch = "task" /\ pc # "task") =>
        IF Get(DocSceneId) # Null /\ PyInt(DocSceneId).ok
        THEN /\ ts_calls = <<IntV(PyInt(DocSceneId).n)>>
             /\ DocSceneId = StrV(<<"4", "2">>) => ts_calls = <<IntV(42)>>
        ELSE /\ ts_calls = <<>>
             /\ ~Sent("findScene")
             /\ \E i \in DOMAIN log : log[i].lvl = "E"
C7_Witness ==
    /\ DocSceneId = StrV(<<"4", "2">>) /\ ts_calls = <<IntV(42)>>
    /\ gql # <<>> /\ gql[Len(gql)] = Request("findScene", <<"4", "2">>)

\* C8 (as stated): in hook mode a present hookContext.id always leads to
\* scene-transcription for that id and never to latest-scene resolution.
C8_HookIdNeverFallsBackToLatest ==
    (branch = "hook" /\ Get(DocHook.id) # Null) =>
        ts_calls # <<>> /\ ~Sent("allScenes")

\* C9: the Transcription Client (probe, ffmpeg, upload) runs only for a scene
\* that was found, has a file whose path exists, with dry-run off; otherwise
\* transcribe_scene logs its reason and calls nothing.
Transcribable ==
    scene.kind = "scene" /\ scene.nfiles >= 1 /\ video_isfile /\ ~Truthy(dry_run)
C9_ClientCalledOnlyForExistingFile ==
    /\ (tv.calls > 0 \/ tv.probes > 0 \/ tv.ffmpegs > 0 \/ tv.uploads > 0) => Transcribable
    /\ (scene.kind # "unset" /\ ~Transcribable) =>
            /\ tv = TvIdle
            /\ CASE scene.kind = "raised" -> Logged("E", "Exception in transcribe_scene")
                 [] scene.kind = "none" -> Logged("E", "Scene not found")
                 [] scene.nfiles = 0 -> Logged("W", "Scene has no associated files")
                 [] ~video_isfile -> Logged("W", "Video file does not exist")
                 [] OTHER -> Logged("I", "Dry-run: would transcribe")
C9_Witness == Transcribable /\ tv.calls = 1 /\ tv.uploads = 1

\* C10 (as stated): whatever way the GraphQL call fails, find_scene returns
\* None and get_all_scenes returns an empty list; neither raises.
C10_GraphqlFailureNeverRaises ==
    /\ host.findScene \in GqlFailures => scene = [kind |-> "none", nfiles |-> 0]
    /\ host.allScenes \in GqlFailures => got_scenes = [raised |-> FALSE, scenes |-> <<>>]

\* a string under a top-level key / under 'output' of the response asked about
TopText == FirstText(resp_json.f, 1)
NestedText ==
    IF resp_json.output.t = "str" THEN resp_json.output
    ELSE IF resp_json.output.t = "dict" THEN FirstText(resp_json.out, 1)
    ELSE Null

\* C11 (as stated): _extract_text_from_response looks at the top level first:
\* a top-level string (text, transcript, transcription in that order) is
\* returned even when 'output' holds a string too; a nested value is returned
\* only when no top-level key matches; None when nothing matches.
C11_TopLevelBeforeOutput ==
    (pc = "extract_done" /\ resp_json.kind = "dict") =>
        extracted = (IF TopText # Null THEN TopText ELSE NestedText)

\* C11 (amended): 'output' is looked at first: a string 'output' is returned,
\* else the first string among output.text, output.transcript,
\* output.transcription; a top-level string (text, transcript, transcription
\* in that order) is returned only when 'output' gives none; None when
\* nothing matches or the response is no object.
C11_OutputBeforeTopLevel ==
    pc = "extract_done" =>
        extracted = (IF resp_json.kind # "dict" THEN Null
                     ELSE IF NestedText # Null THEN NestedText ELSE TopText)

\* C11 witness: a response with a string at the top level and another under
\* output.transcript has given the nested one
C11_Witness ==
    /\ pc = "extract_done"
    /\ resp_json.f.text = StrV(<<"top.text">>)
    /\ resp_json.output = OutputDict /\ resp_json.out.text = IntV(1)
    /\ resp_json.out.transcript = StrV(<<"output.transcript">>)
    /\ extracted = StrV(<<"output.transcript">>)

\* the serverUrl value a UI source of the descriptor carries, None without one
UiUrl(src) == IF Holds(src, "serverUrl") THEN Held(src, "serverUrl", Null) ELSE Null
\* the sources in the order of the claim; the raw-payload extraction reads
\* the two UI sources again
UrlSources ==
    << Get(DocServerUrl), UiUrl(Doc.settings), UiUrl(Doc.pluginSettings),
       host.configuration, environ, StrV(DEFAULT_SERVER_URL) >>
FirstNonBlank(i) ==
    NonBlank(UrlSources[i]) /\ \A j \in 1..(i - 1) : ~NonBlank(UrlSources[j])

\* C12 (as stated): server_url is the first non-blank string among
\* args.serverUrl, the UI setting (settings or pluginSettings), the raw
\* payload, the remote fetch, WHISPER_SERVER_URL and the default; the remote
\* fetch is made only when every earlier source gave no non-blank string.
C12_FirstNonBlankSourceWins ==
    pc \notin {"start", "resolve", "crashed"} =>
        /\ \A i \in DOMAIN UrlSources : FirstNonBlank(i) => server_url = Strip(UrlSources[i].s)
        /\ Sent("configuration") => \A j \in 1..3 : ~NonBlank(UrlSources[j])

\* the connection of the descriptor, whatever key carries it
Conn == server_connection
ConnKey ==
    IF Conn.kind = "dict" /\ Conn.key = "server_connection" THEN Get(Conn.f.api_key) ELSE Null

\* C13 (as stated): the API key is server_connection.api_key when present,
\* otherwise STASH_API_KEY: with no server_connection, or one without a key,
\* and STASH_API_KEY set, the request carries the ApiKey header and
\* "Authorization: apikey <key>" with the environment value; whenever a key
\* is resolved both headers carry that key.
C13_ApiKeyFallsBackToEnvironment ==
    helper_req.state = "sent" =>
        /\ Truthy(ConnKey) =>
              /\ helper_req.ApiKey = ConnKey
              /\ helper_req.Authorization = StrV(<<"apikey ">> \o ConnKey.s)
        /\ ( /\ Conn.kind \in {"absent", "dict"}
             /\ \A k \in {"api_key", "apiKey", "ApiKey"} : ~Truthy(Get(Conn.f[k]))
             /\ Truthy(Get(stash_env.STASH_API_KEY)) ) =>
              /\ helper_req.ApiKey = stash_env.STASH_API_KEY
              /\ helper_req.Authorization = StrV(<<"apikey ">> \o stash_env.STASH_API_KEY.s)
        /\ (helper_req.ApiKey # Absent \/ helper_req.Authorization # Absent) =>
              helper_req.Authorization = StrV(<<"apikey ">> \o helper_req.ApiKey.s)

\* C14 (as stated): the GraphQL URL is the explicit URL field of
\* server_connection, else scheme://host:port/graphql composed from it, else
\* the environment, else http://127.0.0.1:9999/graphql; for one
\* server_connection {scheme, host, port} the helper's requests and the
\* settings fetch use the same URL, port included.
C14_SameUrlWithPort ==
    ( /\ helper_req.state = "sent" /\ fetch_req.state = "sent"
      /\ Conn.kind = "dict" /\ Conn.key = "server_connection"
      /\ \A k \in DOMAIN Conn.f : Conn.f[k] # Absent <=> k \in {"scheme", "host", "port"} ) =>
        /\ helper_req.url = fetch_req.url
        /\ helper_req.url = Conn.f.scheme.s \o <<"://">> \o Conn.f.host.s \o <<":">>
                               \o PyStr(Conn.f.port) \o <<"/graphql">>

\* C15 (as stated): "Transcription completed" is logged only after the
\* Transcription Client was invoked and returned without raising; the
\* dry-run path logs the intent message and no completion.
C15_CompletionOnlyAfterClientReturned ==
    /\ Logged("I", "Transcription completed") => (tv.calls = 1 /\ tv.result = "returned")
    /\ Logged("I", "Dry-run: would transcribe") => ~Logged("I", "Transcription completed")

\* what transcribe_video has done so far is a prefix of check, probe, ffmpeg,
\* upload, write, nothing done twice, and a call that ended without a
\* response from the upload raised and left the .srt file alone
StepsSoFarInOrder ==
    /\ tv.probes <= 1 /\ tv.ffmpegs <= 1 /\ tv.uploads <= 1
    /\ tv.probes > 0 => tv.calls = 1
    /\ tv.ffmpegs > 0 => (tv.probes = 1 /\ tv.tmp_wav_path)
    /\ tv.uploads > 0 => tv.ffmpegs = 1
    /\ tv.srt # "unchanged" => (tv.uploads = 1 /\ tv.response /\ tv.pending = "none")
    /\ (tv.result # "none" /\ ~tv.response) => (tv.result = "raised" /\ tv.srt = "unchanged")
    /\ tv.result = "returned" => tv.srt = "written"
\* a step starts only while no earlier step has failed
StepStartsAfterSuccess ==
    LET clean == tv.result = "none" /\ tv.pending = "none" /\ tv.srt = "unchanged"
    IN  /\ tv'.probes > tv.probes => (clean /\ tv.ffmpegs = 0 /\ tv.uploads = 0)
        /\ tv'.ffmpegs > tv.ffmpegs => (clean /\ tv.probes = 1 /\ tv.uploads = 0)
        /\ tv'.uploads > tv.uploads => (clean /\ tv.ffmpegs = 1)
        /\ tv'.srt # tv.srt => (clean /\ tv.uploads = 1 /\ tv.response)

\* C16: transcribe_video runs existence check, reachability probe, ffmpeg,
\* upload and SRT write in that order, each step only after every earlier one
\* succeeded; the .srt file is touched only after the upload returned a
\* successful response, and any earlier failure leaves it unchanged and is
\* raised to the caller.
C16_StepsInOrderSrtAfterUpload == []StepsSoFarInOrder /\ [][StepStartsAfterSuccess]_vars

\* C16 witness: a call that went through every step and wrote the .srt file
C16_Witness ==
    /\ tv.calls = 1 /\ tv.probes = 1 /\ tv.ffmpegs = 1 /\ tv.uploads = 1
    /\ tv.response /\ tv.srt = "written" /\ tv.result = "returned"

====
